---- MODULE Spec2Model ----
(***************************************************************************)
(* The four TEC disclosure importers of scripts/ (import_filers,           *)
(* import_reports, import_contributions, import_expenditures) as one       *)
(* state machine: a run reads its source files row by row, normalizes,     *)
(* filters and (for filers) deduplicates, then loads the accepted records  *)
(* in batches with the fallback retry of the scripts.                      *)
(*                                                                         *)
(* Strings are sequences of one-character strings, so that slicing,        *)
(* int() and the date formats are computed on the characters.              *)
(***************************************************************************)
EXTENDS Integers, Sequences, FiniteSets, TLC

(***************************************************************************)
(* Characters and Python string primitives                                 *)
(***************************************************************************)
DigitChars == <<"0", "1", "2", "3", "4", "5", "6", "7", "8", "9">>

IsDigit(c) == \E k \in 1..10 : DigitChars[k] = c

DigitVal(c) == (CHOOSE k \in 1..10 : DigitChars[k] = c) - 1

\* str.isdigit() on the ASCII characters the model uses
AllDigits(s) == Len(s) > 0 /\ \A k \in 1..Len(s) : IsDigit(s[k])

\* s[:n]
Prefix(s, n) == SubSeq(s, 1, IF n < Len(s) THEN n ELSE Len(s))

\* s[i:i+n] with a 0-based start i
Slice(s, i, n) == SubSeq(s, i + 1, IF i + n < Len(s) THEN i + n ELSE Len(s))

\* the number the first k digits of s write
RECURSIVE DigitsValue(_, _)
DigitsValue(s, k) ==
    IF k = 0 THEN 0 ELSE 10 * DigitsValue(s, k - 1) + DigitVal(s[k])

DigitsToInt(s) == DigitsValue(s, Len(s))

\* n written with at least w digits, zero padded (the %04d / %02d of strftime)
RECURSIVE IntToDigits(_, _)
IntToDigits(n, w) ==
    IF w <= 1 /\ n < 10 THEN <<DigitChars[n + 1]>>
    ELSE IntToDigits(n \div 10, w - 1) \o <<DigitChars[(n % 10) + 1]>>

\* str.strip(chars): drop leading and trailing characters that are in chars
Strip(s, chars) ==
    LET keep == {k \in 1..Len(s) : s[k] \notin chars}
    IN  IF keep = {} THEN <<>>
        ELSE SubSeq(s, CHOOSE k \in keep : \A h \in keep : k <= h,
                       CHOOSE k \in keep : \A h \in keep : h <= k)

Whitespace == {" "}

(***************************************************************************)
(* int(text): surrounding whitespace is stripped, one sign is allowed,     *)
(* the rest must be a non-empty run of digits; anything else raises        *)
(* ValueError.  PyInt is the set of outcomes: the one value, or the empty  *)
(* set for ValueError.  (The underscore digit separator of Python is not   *)
(* in the alphabet of the model's inputs.)                                 *)
(***************************************************************************)
Unsigned(t) == IF Len(t) > 0 /\ t[1] \in {"-", "+"} THEN Tail(t) ELSE t

Signed(t) == IF t[1] = "-" THEN 0 - DigitsToInt(Tail(t)) ELSE DigitsToInt(Unsigned(t))

PyInt(s) == {Signed(t) : t \in {u \in {Strip(s, Whitespace)} : AllDigits(Unsigned(u))}}

(***************************************************************************)
(* datetime.strptime(text, fmt) for the three formats of parse_date.       *)
(* A format is a sequence of directives ("%Y", "%m", "%d") and literal     *)
(* characters.  strptime compiles it to a regular expression in which      *)
(* %Y is \d\d\d\d, %m is 1[0-2]|0[1-9]|[1-9] and %d is                     *)
(* 3[01]|[12]\d|0[1-9]|[1-9]| [1-9]; it takes the first match in the       *)
(* order of the alternatives (backtracking), and raises ValueError when    *)
(* no match exists, when text remains after the match, or when the values  *)
(* are no calendar date.                                                   *)
(***************************************************************************)
FmtYmd == <<"%Y", "%m", "%d">>

FmtSlash == <<"%m", "/", "%d", "/", "%Y">>

FmtDash == <<"%Y", "-", "%m", "-", "%d">>

DateFormats == <<FmtYmd, FmtSlash, FmtDash>>

\* the characters of s from position pos, n of them (empty when they run out)
At(s, pos, n) == IF pos + n - 1 <= Len(s) THEN SubSeq(s, pos, pos + n - 1) ELSE <<>>

NonZeroDigit(c) == IsDigit(c) /\ c # "0"

\* a choice <<a, b>> names one alternative of %m (a) and one of %d (b);
\* %m precedes %d in the three formats, so regex order is the order of <<a, b>>
Choices == (1..3) \X (1..5)

ChoiceBefore(c1, c2) == c1[1] < c2[1] \/ (c1[1] = c2[1] /\ c1[2] <= c2[2])

AltOf(tok, c) == IF tok = "%m" THEN c[1] ELSE IF tok = "%d" THEN c[2] ELSE 1

\* the length of the text alternative a of a format element consumes
AltLen(tok, a) ==
    IF tok = "%Y" THEN 4
    ELSE IF tok = "%m" THEN (IF a = 3 THEN 1 ELSE 2)
    ELSE IF tok = "%d" THEN (IF a = 4 THEN 1 ELSE 2)
    ELSE 1

\* whether alternative a of a format element matches exactly the text t
AltOk(tok, a, t) ==
    /\ Len(t) = AltLen(tok, a)
    /\ IF tok = "%Y" THEN AllDigits(t)
       ELSE IF tok = "%m" THEN
            \/ a = 1 /\ t[1] = "1" /\ t[2] \in {"0", "1", "2"}
            \/ a = 2 /\ t[1] = "0" /\ NonZeroDigit(t[2])
            \/ a = 3 /\ NonZeroDigit(t[1])
       ELSE IF tok = "%d" THEN
            \/ a = 1 /\ t[1] = "3" /\ t[2] \in {"0", "1"}
            \/ a = 2 /\ t[1] \in {"1", "2"} /\ IsDigit(t[2])
            \/ a = 3 /\ t[1] = "0" /\ NonZeroDigit(t[2])
            \/ a = 4 /\ NonZeroDigit(t[1])
            \/ a = 5 /\ t[1] = " " /\ NonZeroDigit(t[2])
       ELSE t = <<tok>>

\* where element k of the format starts under choice c (k = Len(fmt) + 1: the end)
RECURSIVE StartOf(_, _, _)
StartOf(fmt, c, k) ==
    IF k = 1 THEN 1
    ELSE StartOf(fmt, c, k - 1) + AltLen(fmt[k - 1], AltOf(fmt[k - 1], c))

ElemText(fmt, s, c, k) ==
    At(s, StartOf(fmt, c, k), AltLen(fmt[k], AltOf(fmt[k], c)))

ChoiceMatches(fmt, s, c) ==
    \A k \in 1..Len(fmt) : AltOk(fmt[k], AltOf(fmt[k], c), ElemText(fmt, s, c, k))

\* the match the regex engine reports, if any: of the choices that match,
\* the first in the order of alternatives
FirstChoice(ms) == {c \in ms : \A c2 \in ms : ChoiceBefore(c, c2)}

RegexMatch(fmt, s) ==
    UNION {FirstChoice(ms) : ms \in {{c \in Choices : ChoiceMatches(fmt, s, c)}}}

MatchEnd(fmt, c) == StartOf(fmt, c, Len(fmt) + 1) - 1

\* int() of the group of directive tok in the match of choice c
MatchField(fmt, s, c, tok) ==
    LET k == CHOOSE h \in 1..Len(fmt) : fmt[h] = tok
    IN  DigitsToInt(SelectSeq(ElemText(fmt, s, c, k), IsDigit))

IsLeap(y) == (y % 4 = 0 /\ y % 100 # 0) \/ y % 400 = 0

DaysIn(y, m) ==
    IF m = 2 THEN (IF IsLeap(y) THEN 29 ELSE 28)
    ELSE IF m \in {4, 6, 9, 11} THEN 30 ELSE 31

\* dt.strftime('%Y-%m-%d') (years of four digits)
Strftime(y, m, d) ==
    IntToDigits(y, 4) \o <<"-">> \o IntToDigits(m, 2) \o <<"-">> \o IntToDigits(d, 2)

\* the outcomes of strptime(s, fmt).strftime('%Y-%m-%d'): the set of the one
\* formatted date, or the empty set when strptime raises ValueError
Strptime(s, fmt) ==
    {Strftime(ymd[1], ymd[2], ymd[3]) :
        ymd \in {t \in {<<MatchField(fmt, s, c, "%Y"), MatchField(fmt, s, c, "%m"),
                         MatchField(fmt, s, c, "%d")>> :
                            c \in {c0 \in RegexMatch(fmt, s) : MatchEnd(fmt, c0) = Len(s)}} :
                    t[1] >= 1 /\ t[3] <= DaysIn(t[1], t[2])}}

(***************************************************************************)
(* parse_date returns a string or None; None is a value no string equals.  *)
(***************************************************************************)
None == <<"None">>

\* the element of a one-element set
Only(S) == CHOOSE x \in S : TRUE

\* the formats are tried in order; the first that parses gives the date
RECURSIVE FirstFormat(_, _)
FirstFormat(s, fmts) ==
    IF Len(fmts) = 0 THEN None
    ELSE Only({IF isos # {} THEN Only(isos) ELSE FirstFormat(s, Tail(fmts)) :
                  isos \in {Strptime(s, Head(fmts))}})

parse_date(date_str) ==
    IF Len(date_str) = 0 \/ Len(date_str) < 8 THEN None
    ELSE IF Len(date_str) = 8 /\ AllDigits(date_str)
         THEN SubSeq(date_str, 1, 4) \o <<"-">> \o SubSeq(date_str, 5, 6)
              \o <<"-">> \o SubSeq(date_str, 7, 8)
         ELSE Only({FirstFormat(text, DateFormats) : text \in {Prefix(date_str, 10)}})

(***************************************************************************)
(* The date filter at the head of parse_report_row,                        *)
(* parse_contribution_row and parse_expenditure_row.                       *)
(***************************************************************************)
MIN_DATE == 20200101

\* TRUE when the row is dropped by the `return None` of the filter; an int()
\* that raises ValueError leaves the row in
DateFilterRejects(received_date_raw) ==
    /\ Len(received_date_raw) > 0
    /\ IF Len(received_date_raw) >= 8
       THEN \E date_int \in PyInt(Prefix(received_date_raw, 8)) : date_int < MIN_DATE
       ELSE 0 < MIN_DATE

(***************************************************************************)
(* Rows and row normalizers.  A row is the mapping csv.DictReader yields:  *)
(* a function from column names to strings; row.get(col, '') is Get.       *)
(* Of the emitted record only the fields some property reads are kept:     *)
(* id, filer_id, received_date (reports, contributions, expenditures)      *)
(* and id, name (filers); the remaining fields are copies of columns.      *)
(***************************************************************************)
Get(row, col) == IF col \in DOMAIN row THEN row[col] ELSE <<>>

\* the name of parse_filer_row
FilerName(row) ==
    LET name == Get(row, "filerName")
        first == Get(row, "filerNameFirst")
        last == Get(row, "filerNameLast")
        suffix == Get(row, "filerNameSuffixCd")
        joined == Strip(last \o <<",", " ">> \o first, {",", " "})
    IN  IF Len(name) > 0 THEN name
        ELSE IF Len(first) > 0 \/ Len(last) > 0
             THEN (IF Len(suffix) > 0 THEN joined \o <<" ">> \o suffix ELSE joined)
             ELSE name

\* the body build_contributor_name and build_payee_name share; the four
\* arguments are the columns each of them reads
BuildName(row, orgcol, lastcol, firstcol, suffixcol) ==
    LET org == Strip(Get(row, orgcol), Whitespace)
        last == Strip(Get(row, lastcol), Whitespace)
        first == Strip(Get(row, firstcol), Whitespace)
        suffix == Strip(Get(row, suffixcol), Whitespace)
        name == last \o <<",", " ">> \o first
    IN  IF Len(org) > 0 THEN org
        ELSE IF Len(last) > 0 /\ Len(first) > 0
             THEN (IF Len(suffix) > 0 THEN name \o <<" ">> \o suffix ELSE name)
        ELSE IF Len(last) > 0 THEN last
        ELSE IF Len(first) > 0 THEN first
        ELSE <<"U", "n", "k", "n", "o", "w", "n">>

build_contributor_name(row) ==
    BuildName(row, "contributorNameOrganization", "contributorNameLast",
              "contributorNameFirst", "contributorNameSuffixCd")

build_payee_name(row) ==
    BuildName(row, "payeeNameOrganization", "payeeNameLast",
              "payeeNameFirst", "payeeNameSuffixCd")

parse_filer_row(row) ==
    [id |-> Get(row, "filerIdent"), name |-> FilerName(row)]

\* the None a row normalizer returns: a value no emitted record equals
NoRecord == [none |-> TRUE]

\* Fault variant of ParseDatedRow: the identity check is left out.
ParseDatedRow_NoIdCheck(row, idcol) ==
    IF DateFilterRejects(Get(row, "receivedDt")) THEN NoRecord
    ELSE [id |-> Get(row, idcol),
          filer_id |-> Get(row, "filerIdent"),
          received_date |-> parse_date(Get(row, "receivedDt"))]

\* the body the three dated normalizers share; idcol is the identity column
ParseDatedRow(row, idcol) ==
    LET received_date_raw == Get(row, "receivedDt")
    IN  IF DateFilterRejects(received_date_raw) THEN NoRecord
        ELSE IF Len(Get(row, idcol)) = 0 THEN NoRecord
        ELSE [id |-> Get(row, idcol),
              filer_id |-> Get(row, "filerIdent"),
              received_date |-> parse_date(received_date_raw)]

parse_report_row(row) == ParseDatedRow(row, "reportInfoIdent")

parse_contribution_row(row) == ParseDatedRow(row, "contributionInfoId")

parse_expenditure_row(row) == ParseDatedRow(row, "expendInfoId")

Kinds == {"filers", "reports", "contributions", "expenditures"}

DatedKinds == Kinds \ {"filers"}

\* contributions and expenditures read every file of a glob; the others one file
ShardedKinds == {"contributions", "expenditures"}

IdColumn(k) ==
    IF k = "filers" THEN "filerIdent"
    ELSE IF k = "reports" THEN "reportInfoIdent"
    ELSE IF k = "contributions" THEN "contributionInfoId"
    ELSE "expendInfoId"

ParseRow(k, row) ==
    IF k = "reports" THEN parse_report_row(row)
    ELSE IF k = "contributions" THEN parse_contribution_row(row)
    ELSE parse_expenditure_row(row)

(***************************************************************************)
(* Bounds of the model and the inputs of a run.                            *)
(* BATCH_SIZE (500 or 1000) and the fallback size (100, or one record at   *)
(* a time for filers and reports) are scaled down: a run is configured     *)
(* with a batch size in 2..MaxBatch and a smaller fallback size.           *)
(***************************************************************************)
MaxRows == 5

MaxFiles == 2

MaxBatch == 5

MaxMini == 2

MaxParseRows == 2

SeqsUpTo(S, n) == UNION {[1..k -> S] : k \in 0..n}

RECURSIVE SumSeq(_)
SumSeq(s) == IF Len(s) = 0 THEN 0 ELSE Head(s) + SumSeq(Tail(s))

Min(a, b) == IF a < b THEN a ELSE b

\* fallback sizes of a kind: filers and reports retry record by record
MiniSizes(k, b) ==
    IF k \in ShardedKinds THEN 1..Min(MaxMini, b - 1) ELSE {1}

Str8(y, m, d) == IntToDigits(y, 4) \o IntToDigits(m, 2) \o IntToDigits(d, 2)

\* a row every normalizer accepts, with an identity of its own
GoodRow(k, fi, n) ==
    LET id == <<"r", DigitChars[fi + 1], DigitChars[n + 1]>>
    IN  IF k = "filers"
        THEN [filerIdent |-> id, filerName |-> <<"N">>]
        ELSE (IdColumn(k) :> id) @@
             [filerIdent |-> <<"f">>, receivedDt |-> Str8(2021, 6, 15)]

GoodFile(k, fi, len) == [n \in 1..len |-> GoodRow(k, fi, n)]

FileLengths(k) ==
    IF k \in ShardedKinds
    THEN {ls \in SeqsUpTo(0..MaxRows, MaxFiles) : SumSeq(ls) <= MaxRows}
    ELSE {<<n>> : n \in 0..MaxRows}

\* runs that exercise the loader: accepted rows only, every batch configuration
LoadInputs ==
    UNION {UNION {UNION {
        {[kind |-> k, files |-> [fi \in 1..Len(ls) |-> GoodFile(k, fi, ls[fi])],
          batchSize |-> b, miniSize |-> m] : m \in MiniSizes(k, b)} :
        b \in 2..MaxBatch} : ls \in FileLengths(k)} : k \in Kinds}

\* raw received dates: absent, before the cutoff, the cutoff, a short
\* malformed value, and a date in a format only parse_date reads
RecvValues ==
    {<<>>, Str8(2019, 12, 31), Str8(2020, 1, 1), <<"N", "/", "A">>,
     <<"1", "2", "/", "3", "1", "/", "2", "0", "1", "9">>}

DatedRows(k) ==
    {(IdColumn(k) :> id) @@ [filerIdent |-> <<"f">>, receivedDt |-> rd] :
        id \in {<<>>, <<"a">>}, rd \in RecvValues}
    \cup {(IdColumn(k) :> <<"a">>) @@ [filerIdent |-> <<>>, receivedDt |-> rd] :
        rd \in {<<>>, Str8(2020, 1, 1)}}
    \cup {[filerIdent |-> <<"f">>, receivedDt |-> Str8(2020, 1, 1)],
          (IdColumn(k) :> <<"a">>) @@ [receivedDt |-> Str8(2020, 1, 1)],
          (IdColumn(k) :> <<"a">>) @@ [filerIdent |-> <<"f">>]}

FilerRows ==
    {[filerIdent |-> id, filerName |-> nm.name, filerNameFirst |-> nm.first,
      filerNameLast |-> nm.last, filerNameSuffixCd |-> nm.suffix] :
        id \in {<<>>, <<"a">>, <<"b">>},
        nm \in {[name |-> <<"X">>, first |-> <<>>, last |-> <<>>, suffix |-> <<>>],
                [name |-> <<>>, first |-> <<"F">>, last |-> <<"L">>, suffix |-> <<>>],
                [name |-> <<>>, first |-> <<"F">>, last |-> <<>>, suffix |-> <<"J">>],
                [name |-> <<>>, first |-> <<>>, last |-> <<>>, suffix |-> <<"J">>]}}
    \cup {[filerName |-> <<"X">>], [filerIdent |-> <<"a">>]}

RowValues(k) == IF k = "filers" THEN FilerRows ELSE DatedRows(k)

\* runs that exercise the normalizers: one short file of arbitrary rows
ParseInputs ==
    UNION {{[kind |-> k, files |-> <<rows>>, batchSize |-> 2, miniSize |-> 1] :
        rows \in SeqsUpTo(RowValues(k), MaxParseRows)} : k \in Kinds}

Inputs == LoadInputs \cup ParseInputs

(***************************************************************************)
(* create_texas_geo_lookup.py: normalize_city.  Each re.sub is modelled by *)
(* what its pattern matches on the text, leftmost match first.             *)
(***************************************************************************)
LowerChars ==
    <<"a", "b", "c", "d", "e", "f", "g", "h", "i", "j", "k", "l", "m",
      "n", "o", "p", "q", "r", "s", "t", "u", "v", "w", "x", "y", "z">>

UpperChars ==
    <<"A", "B", "C", "D", "E", "F", "G", "H", "I", "J", "K", "L", "M",
      "N", "O", "P", "Q", "R", "S", "T", "U", "V", "W", "X", "Y", "Z">>

\* str.upper() and str.lower(), one character at a time
UpperChar(c) ==
    IF \E k \in DOMAIN LowerChars : LowerChars[k] = c
    THEN UpperChars[CHOOSE k \in DOMAIN LowerChars : LowerChars[k] = c]
    ELSE c

LowerChar(c) ==
    IF \E k \in DOMAIN UpperChars : UpperChars[k] = c
    THEN LowerChars[CHOOSE k \in DOMAIN UpperChars : UpperChars[k] = c]
    ELSE c

Upper(s) == [k \in DOMAIN s |-> UpperChar(s[k])]

Lower(s) == [k \in DOMAIN s |-> LowerChar(s[k])]

StartsWith(s, t) == Len(s) >= Len(t) /\ SubSeq(s, 1, Len(t)) = t

EndsWith(s, t) == Len(s) >= Len(t) /\ SubSeq(s, Len(s) - Len(t) + 1, Len(s)) = t

\* the length of the run of whitespace that ends at position e of s
WsBefore(s, e) ==
    CHOOSE w \in 0..e :
        /\ \A k \in (e - w + 1)..e : s[k] \in Whitespace
        /\ (w < e => s[e - w] \notin Whitespace)

\* the length of the run of whitespace that starts at position b of s
WsFrom(s, b) ==
    CHOOSE w \in 0..(Len(s) - b + 1) :
        /\ \A k \in b..(b + w - 1) : s[k] \in Whitespace
        /\ (b + w <= Len(s) => s[b + w] \notin Whitespace)

\* re.sub(r'\s+', ' ', n): every run of whitespace becomes one space
RECURSIVE CollapseWs(_)
CollapseWs(n) ==
    IF Len(n) = 0 THEN <<>>
    ELSE IF Head(n) \in Whitespace
         THEN <<" ">> \o CollapseWs(SubSeq(n, WsFrom(n, 1) + 1, Len(n)))
         ELSE <<Head(n)>> \o CollapseWs(Tail(n))

\* re.sub('^' + tok + r'\.?\s+', repl, n): tok at the start, an optional
\* dot and at least one whitespace are replaced by repl
SubLeading(tok, repl, n) ==
    LET dot == IF StartsWith(n, tok \o <<".">>) THEN 1 ELSE 0
        b == Len(tok) + dot + 1
    IN  IF StartsWith(n, tok) /\ WsFrom(n, b) > 0
        THEN repl \o SubSeq(n, b + WsFrom(n, b), Len(n))
        ELSE n

TX == <<"T", "X">>

TEXAS == <<"T", "E", "X", "A", "S">>

USA == <<"U", "S", "A">>

\* Fault variant of StripState: the comma before the state token stays.
StripState_KeepsComma(n) ==
    LET u == Upper(n)
        tok == IF EndsWith(u, TEXAS) THEN TEXAS ELSE TX
        e == Len(n) - Len(tok)
        w == WsBefore(n, e)
    IN  IF EndsWith(u, TX) \/ EndsWith(u, TEXAS)
        THEN SubSeq(n, 1, e - w)
        ELSE n

\* re.sub(r',?\s*(TX|TEXAS)$', '', n, flags=re.I): the state token at the
\* end goes, with the whitespace before it and one comma before that
StripState(n) ==
    LET u == Upper(n)
        tok == IF EndsWith(u, TEXAS) THEN TEXAS ELSE TX
        e == Len(n) - Len(tok)
        w == WsBefore(n, e)
        comma == IF e - w >= 1 /\ n[e - w] = "," THEN 1 ELSE 0
    IN  IF EndsWith(u, TX) \/ EndsWith(u, TEXAS)
        THEN SubSeq(n, 1, e - w - comma)
        ELSE n

\* re.sub(r'\s+TX\s+USA$', '', n, flags=re.I)
StripTxUsa(n) ==
    LET u == Upper(n)
        e1 == Len(n) - Len(USA)
        w1 == WsBefore(n, e1)
        e2 == e1 - w1 - Len(TX)
        w2 == WsBefore(n, e2)
    IN  IF /\ EndsWith(u, USA)
           /\ w1 > 0
           /\ EndsWith(SubSeq(u, 1, e1 - w1), TX)
           /\ w2 > 0
        THEN SubSeq(n, 1, e2 - w2)
        ELSE n

normalize_city(city_name) ==
    IF Len(city_name) = 0 THEN <<>>
    ELSE LET n1 == Strip(Upper(city_name), Whitespace)
             n2 == CollapseWs(n1)
             n3 == SubLeading(<<"F", "T">>, <<"F", "O", "R", "T", " ">>, n2)
             n4 == SubLeading(<<"S", "T">>, <<"S", "A", "I", "N", "T", " ">>, n3)
             n5 == StripState(n4)
             n6 == StripTxUsa(n5)
         IN  Strip(n6, Whitespace)

(***************************************************************************)
(* The state of one run.                                                   *)
(***************************************************************************)
VARIABLES
    kind,            \* which importer runs
    files,           \* the source files, each a sequence of rows
    batchSize,       \* BATCH_SIZE
    miniSize,        \* the fallback size
    pc,              \* "open", "read", "batch", "mini", "done"
    f,               \* index of the current file (the csv_path loop)
    r,               \* index of the next row of the current file
    records,         \* filers / reports / contributions / expenditures
    src,             \* for each accepted record, the index of its row
    seen_ids,        \* seen_ids of import_filers
    file_skipped,    \* skipped / file_skipped
    total_skipped,   \* total_skipped
    i,               \* start of the current batch in records (0-based)
    j,               \* start of the current sub-batch in the batch (0-based)
    total_imported,  \* total_imported / total_inserted
    calls,           \* every upsert call made so far, with its outcome
    op,              \* the field function applied last, "none" before any
    given,           \* the input of the field function
    result           \* the values the field function returned, in order

vars == <<kind, files, batchSize, miniSize, pc, f, r, records, src, seen_ids,
          file_skipped, total_skipped, i, j, total_imported, calls,
          op, given, result>>

config == <<kind, files, batchSize, miniSize>>

\* the state of the field functions, which an importer run leaves alone
fields == <<op, given, result>>

Init ==
    /\ \E inp \in Inputs :
        /\ kind = inp.kind
        /\ files = inp.files
        /\ batchSize = inp.batchSize
        /\ miniSize = inp.miniSize
    /\ pc = "open"
    /\ f = 1
    /\ r = 1
    /\ records = <<>>
    /\ src = <<>>
    /\ seen_ids = {}
    /\ file_skipped = 0
    /\ total_skipped = 0
    /\ i = 0
    /\ j = 0
    /\ total_imported = 0
    /\ calls = <<>>
    /\ op = "none"
    /\ given = <<>>
    /\ result = <<>>

\* batch = records[i:i + BATCH_SIZE]
Batch == Slice(records, i, batchSize)

\* Fault variant of MiniBatch: the offset j is forgotten (batch[:100]).
MiniBatch_IgnoresOffset == Slice(Batch, 0, miniSize)

\* mini_batch = batch[j:j + 100], or the single record of `for filer in batch`
MiniBatch == Slice(Batch, j, miniSize)

Call(tier, at, recs, ok) ==
    [file |-> f, tier |-> tier, at |-> at, recs |-> recs, ok |-> ok]

\* the next source file is opened and the per-file lists are reset
OpenFile ==
    /\ pc = "open"
    /\ f <= Len(files)
    /\ records' = <<>>
    /\ src' = <<>>
    /\ file_skipped' = 0
    /\ r' = 1
    /\ pc' = "read"
    /\ UNCHANGED <<config, fields, f, seen_ids, total_skipped, i, j, total_imported, calls>>

\* Fault variant of ReadFilerRow: seen_ids is not consulted.
ReadFilerRow_NoSeenCheck(row) ==
    LET filer_id == Get(row, "filerIdent")
        filer == parse_filer_row(row)
    IN  IF Len(filer_id) = 0
        THEN UNCHANGED <<seen_ids, records, src, file_skipped>>
        ELSE /\ seen_ids' = seen_ids \cup {filer_id}
             /\ IF Len(filer.name) = 0
                THEN UNCHANGED <<records, src>>
                ELSE /\ records' = Append(records, filer)
                     /\ src' = Append(src, r)
             /\ UNCHANGED file_skipped

\* Fault variant of ReadFilerRow: the identifier is marked as seen only after
\* the empty-name check, so a rejected first row does not shadow a later one.
ReadFilerRow_MarksAfterNameCheck(row) ==
    LET filer_id == Get(row, "filerIdent")
        filer == parse_filer_row(row)
    IN  IF Len(filer_id) = 0 \/ filer_id \in seen_ids \/ Len(filer.name) = 0
        THEN UNCHANGED <<seen_ids, records, src, file_skipped>>
        ELSE /\ seen_ids' = seen_ids \cup {filer_id}
             /\ records' = Append(records, filer)
             /\ src' = Append(src, r)
             /\ UNCHANGED file_skipped

\* one pass of the reader loop of import_filers
ReadFilerRow(row) ==
    LET filer_id == Get(row, "filerIdent")
        filer == parse_filer_row(row)
    IN  IF Len(filer_id) = 0 \/ filer_id \in seen_ids
        THEN UNCHANGED <<seen_ids, records, src, file_skipped>>
        ELSE /\ seen_ids' = seen_ids \cup {filer_id}
             /\ IF Len(filer.name) = 0
                THEN UNCHANGED <<records, src>>
                ELSE /\ records' = Append(records, filer)
                     /\ src' = Append(src, r)
             /\ UNCHANGED file_skipped

\* one pass of the reader loop of the three dated importers
ReadDatedRow(row) ==
    \E rec \in {ParseRow(kind, row)} :
        /\ IF rec # NoRecord
           THEN /\ records' = Append(records, rec)
                /\ src' = Append(src, r)
                /\ UNCHANGED file_skipped
           ELSE /\ file_skipped' = file_skipped + 1
                /\ UNCHANGED <<records, src>>
        /\ UNCHANGED seen_ids

ReadRow ==
    /\ pc = "read"
    /\ r <= Len(files[f])
    /\ IF kind = "filers" THEN ReadFilerRow(files[f][r]) ELSE ReadDatedRow(files[f][r])
    /\ r' = r + 1
    /\ UNCHANGED <<config, fields, pc, f, total_skipped, i, j, total_imported, calls>>

\* the reader is exhausted: the batch loop starts
EndOfFile ==
    /\ pc = "read"
    /\ r > Len(files[f])
    /\ total_skipped' = total_skipped + file_skipped
    /\ i' = 0
    /\ pc' = "batch"
    /\ UNCHANGED <<config, fields, f, r, records, src, seen_ids, file_skipped, j,
                   total_imported, calls>>

\* upsert(batch) succeeds
UpsertBatchOk ==
    /\ pc = "batch"
    /\ i < Len(records)
    /\ calls' = Append(calls, Call("full", i, Batch, TRUE))
    /\ total_imported' = total_imported + Len(Batch)
    /\ i' = i + batchSize
    /\ UNCHANGED <<config, fields, pc, f, r, records, src, seen_ids, file_skipped,
                   total_skipped, j>>

\* upsert(batch) raises: the except branch starts the fallback loop
UpsertBatchFail ==
    /\ pc = "batch"
    /\ i < Len(records)
    /\ calls' = Append(calls, Call("full", i, Batch, FALSE))
    /\ j' = 0
    /\ pc' = "mini"
    /\ UNCHANGED <<config, fields, f, r, records, src, seen_ids, file_skipped,
                   total_skipped, i, total_imported>>

\* Fault variant of UpsertMiniOk: the size of the whole batch is added.
UpsertMiniOk_CountsBatch ==
    /\ pc = "mini"
    /\ j < Len(Batch)
    /\ calls' = Append(calls, Call("mini", i + j, MiniBatch, TRUE))
    /\ total_imported' = total_imported + Len(Batch)
    /\ j' = j + miniSize
    /\ UNCHANGED <<config, fields, pc, f, r, records, src, seen_ids, file_skipped,
                   total_skipped, i>>

\* upsert(mini_batch) succeeds
UpsertMiniOk ==
    /\ pc = "mini"
    /\ j < Len(Batch)
    /\ calls' = Append(calls, Call("mini", i + j, MiniBatch, TRUE))
    /\ total_imported' = total_imported + Len(MiniBatch)
    /\ j' = j + miniSize
    /\ UNCHANGED <<config, fields, pc, f, r, records, src, seen_ids, file_skipped,
                   total_skipped, i>>

\* Fault variant of UpsertMiniFail: the fallback loop is left at the first
\* failing sub-batch (a break in the except branch).
UpsertMiniFail_Breaks ==
    /\ pc = "mini"
    /\ j < Len(Batch)
    /\ calls' = Append(calls, Call("mini", i + j, MiniBatch, FALSE))
    /\ j' = Len(Batch)
    /\ UNCHANGED <<config, fields, pc, f, r, records, src, seen_ids, file_skipped,
                   total_skipped, i, total_imported>>

\* Fault variant of UpsertMiniFail: the exception is not caught and ends the run.
UpsertMiniFail_Raises ==
    /\ pc = "mini"
    /\ j < Len(Batch)
    /\ calls' = Append(calls, Call("mini", i + j, MiniBatch, FALSE))
    /\ pc' = "crashed"
    /\ UNCHANGED <<config, fields, f, r, records, src, seen_ids, file_skipped,
                   total_skipped, i, j, total_imported>>

\* upsert(mini_batch) raises: the error is printed and the loop goes on
UpsertMiniFail ==
    /\ pc = "mini"
    /\ j < Len(Batch)
    /\ calls' = Append(calls, Call("mini", i + j, MiniBatch, FALSE))
    /\ j' = j + miniSize
    /\ UNCHANGED <<config, fields, pc, f, r, records, src, seen_ids, file_skipped,
                   total_skipped, i, total_imported>>

\* the fallback loop is exhausted: on to the next batch
EndMini ==
    /\ pc = "mini"
    /\ j >= Len(Batch)
    /\ i' = i + batchSize
    /\ pc' = "batch"
    /\ UNCHANGED <<config, fields, f, r, records, src, seen_ids, file_skipped,
                   total_skipped, j, total_imported, calls>>

\* the batch loop is exhausted: on to the next file
EndBatches ==
    /\ pc = "batch"
    /\ i >= Len(records)
    /\ f' = f + 1
    /\ pc' = "open"
    /\ UNCHANGED <<config, fields, r, records, src, seen_ids, file_skipped,
                   total_skipped, i, j, total_imported, calls>>

\* no file is left: the final "Done!" line is printed
Summary ==
    /\ pc = "open"
    /\ f > Len(files)
    /\ pc' = "done"
    /\ UNCHANGED <<config, fields, f, r, records, src, seen_ids, file_skipped,
                   total_skipped, i, j, total_imported, calls>>

Next ==
    \/ OpenFile
    \/ ReadRow
    \/ EndOfFile
    \/ UpsertBatchOk
    \/ UpsertBatchFail
    \/ UpsertMiniOk
    \/ UpsertMiniFail
    \/ EndMini
    \/ EndBatches
    \/ Summary

Spec == Init /\ [][Next]_vars

\* the script is one sequential thread: a step that can be taken is taken
FairSpec == Spec /\ WF_vars(Next)

(***************************************************************************)
(* The field functions on their own: name assembly and normalize_city are  *)
(* applied to an input drawn from a bounded set.                           *)
(***************************************************************************)
MaxTrail == 2

MaxPad == 1

\* the name columns of a row: organization, last, first, suffix
NameParts ==
    [org : {<<>>, <<"O">>, <<" ", "O">>}, last : {<<>>, <<"L">>},
     first : {<<>>, <<"F">>}, suffix : {<<>>, <<"J">>}]

FilerRowOf(p) ==
    [filerName |-> p.org, filerNameLast |-> p.last,
     filerNameFirst |-> p.first, filerNameSuffixCd |-> p.suffix]

ContributorRowOf(p) ==
    [contributorNameOrganization |-> p.org, contributorNameLast |-> p.last,
     contributorNameFirst |-> p.first, contributorNameSuffixCd |-> p.suffix]

PayeeRowOf(p) ==
    [payeeNameOrganization |-> p.org, payeeNameLast |-> p.last,
     payeeNameFirst |-> p.first, payeeNameSuffixCd |-> p.suffix]

FORT == <<"F", "O", "R", "T">>

SAINT == <<"S", "A", "I", "N", "T">>

\* how the first word of a city is written, and the word it stands for
Leads ==
    {[text |-> <<>>, word |-> <<>>],
     [text |-> <<"F", "t">>, word |-> FORT],
     [text |-> <<"F", "t", ".">>, word |-> FORT],
     [text |-> <<"F", "o", "r", "t">>, word |-> FORT],
     [text |-> <<"S", "t">>, word |-> SAINT],
     [text |-> <<"S", "t", ".">>, word |-> SAINT],
     [text |-> <<"S", "a", "i", "n", "t">>, word |-> SAINT]}

\* the rest of the city's name; none of them carries a state token
Cores ==
    {<<"W", "o", "r", "t", "h">>, <<"H", "e", "d", "w", "i", "g">>,
     <<"D", "a", "l", "l", "a", "s">>, <<"E", "l", " ", "P", "a", "s", "o">>,
     <<"S", "t", "a", "f", "f", "o", "r", "d">>}

\* ", TX", " TX", " Texas", " TX USA"
StateTokens ==
    {<<",", " ", "T", "X">>, <<" ", "T", "X">>,
     <<" ", "T", "e", "x", "a", "s">>, <<" ", "T", "X", " ", "U", "S", "A">>}

Casings == {"asis", "upper", "lower"}

\* one way of writing a city: its first word, the rest of its name, the
\* state tokens that follow, the letter case and the extra whitespace
Spellings ==
    [lead : Leads, core : Cores, trail : SeqsUpTo(StateTokens, MaxTrail),
     casing : Casings, pad : 0..MaxPad]

EmptySpelling ==
    [lead |-> [text |-> <<>>, word |-> <<>>], core |-> <<>>, trail |-> <<>>,
     casing |-> "asis", pad |-> 0]

RECURSIVE Concat(_)
Concat(ss) == IF Len(ss) = 0 THEN <<>> ELSE Head(ss) \o Concat(Tail(ss))

Spaces(n) == [k \in 1..n |-> " "]

\* every space of s becomes pad + 1 spaces
RECURSIVE Widen(_, _)
Widen(s, pad) ==
    IF Len(s) = 0 THEN <<>>
    ELSE (IF Head(s) = " " THEN Spaces(pad + 1) ELSE <<Head(s)>>)
         \o Widen(Tail(s), pad)

Recase(s, casing) ==
    IF casing = "upper" THEN Upper(s)
    ELSE IF casing = "lower" THEN Lower(s)
    ELSE s

\* the text of a spelling
Render(sp) ==
    LET first == IF Len(sp.lead.text) = 0 THEN <<>> ELSE sp.lead.text \o <<" ">>
        text == first \o sp.core \o Concat(sp.trail)
    IN  IF sp = EmptySpelling THEN <<>>
        ELSE Spaces(sp.pad) \o Widen(Recase(text, sp.casing), sp.pad)
             \o Spaces(sp.pad)

\* the city a spelling names, in capitals
Key(sp) ==
    IF Len(sp.lead.word) = 0 THEN Upper(sp.core)
    ELSE sp.lead.word \o <<" ">> \o Upper(sp.core)

FieldInputs == NameParts \cup Spellings \cup {EmptySpelling}

\* the variables of an importer run, which the field functions leave alone
load == <<config, pc, f, r, records, src, seen_ids, file_skipped,
          total_skipped, i, j, total_imported, calls>>

FieldInit ==
    /\ kind = "none"
    /\ files = <<>>
    /\ batchSize = 1
    /\ miniSize = 1
    /\ pc = "done"
    /\ f = 1
    /\ r = 1
    /\ records = <<>>
    /\ src = <<>>
    /\ seen_ids = {}
    /\ file_skipped = 0
    /\ total_skipped = 0
    /\ i = 0
    /\ j = 0
    /\ total_imported = 0
    /\ calls = <<>>
    /\ op = "none"
    /\ given \in FieldInputs
    /\ result = <<>>

\* parse_filer_row builds the name of a filer
FilerNameBuilt ==
    /\ op = "none"
    /\ given \in NameParts
    /\ result' = <<parse_filer_row(FilerRowOf(given)).name>>
    /\ op' = "parse_filer_row"
    /\ UNCHANGED <<load, given>>

ContributorNameBuilt ==
    /\ op = "none"
    /\ given \in NameParts
    /\ result' = <<build_contributor_name(ContributorRowOf(given))>>
    /\ op' = "build_contributor_name"
    /\ UNCHANGED <<load, given>>

PayeeNameBuilt ==
    /\ op = "none"
    /\ given \in NameParts
    /\ result' = <<build_payee_name(PayeeRowOf(given))>>
    /\ op' = "build_payee_name"
    /\ UNCHANGED <<load, given>>

\* normalized = normalize_city(city)
CityNormalized ==
    /\ op = "none"
    /\ given \notin NameParts
    /\ result' = <<normalize_city(Render(given))>>
    /\ op' = "normalize_city"
    /\ UNCHANGED <<load, given>>

\* a key of the cities table is normalized again, as a lookup does
KeyNormalized ==
    /\ op = "normalize_city"
    /\ result' = Append(result, normalize_city(result[1]))
    /\ op' = "lookup"
    /\ UNCHANGED <<load, given>>

FieldNext ==
    \/ FilerNameBuilt
    \/ ContributorNameBuilt
    \/ PayeeNameBuilt
    \/ CityNormalized
    \/ KeyNormalized

FieldSpec == FieldInit /\ [][FieldNext]_vars

(***************************************************************************)
(* Vocabulary of the properties.                                           *)
(***************************************************************************)
\* the file the list `records` was read from
LoadedFile == IF pc \in {"open", "done"} THEN f - 1 ELSE f

CallIds == DOMAIN calls

\* call k carried the record at position p (1-based) of file fl's list
Covers(k, fl, p) ==
    /\ calls[k].file = fl
    /\ calls[k].at < p
    /\ p <= calls[k].at + Len(calls[k].recs)

FullCalls(fl, p) == {k \in CallIds : calls[k].tier = "full" /\ Covers(k, fl, p)}

MiniCalls(fl, p) == {k \in CallIds : calls[k].tier = "mini" /\ Covers(k, fl, p)}

\* the loader is past the batch of position p of the loaded file
BatchFinished(p) == pc \in {"open", "done"} \/ (pc \in {"batch", "mini"} /\ p <= i)

CallSizes == [k \in CallIds |-> Len(calls[k].recs)]

CallOutcomes == [k \in CallIds |-> calls[k].ok]

RECURSIVE SucceededSize(_)
SucceededSize(cs) ==
    IF Len(cs) = 0 THEN 0
    ELSE (IF Head(cs).ok THEN Len(Head(cs).recs) ELSE 0) + SucceededSize(Tail(cs))

\* the records, by file and position, that some successful call carried
Landed ==
    {fp \in UNION {{<<calls[k].file, calls[k].at + q>> : q \in 1..Len(calls[k].recs)} :
                    k \in CallIds} :
        \E k \in CallIds : calls[k].ok /\ Covers(k, fp[1], fp[2])}

\* every call of the loaded file carried the records at its positions
CallsCarryRecords ==
    \A k \in CallIds : calls[k].file = LoadedFile =>
        \A q \in 1..Len(calls[k].recs) :
            /\ calls[k].at + q <= Len(records)
            /\ calls[k].recs[q] = records[calls[k].at + q]

(***************************************************************************)
(* C1 (as stated): with a store that fails every upsert of more than 2     *)
(* records, 5 accepted records, batch size 5 and fallback size 2, the run  *)
(* makes exactly 3 upsert calls (5 failing, then 2 and 2 succeeding), the  *)
(* fifth record is dropped and the reported total is the 4 that landed.    *)
(***************************************************************************)
\* every outcome so far is the one the stub store gives
StubOutcomes == \A k \in CallIds : calls[k].ok <=> Len(calls[k].recs) <= 2

DegradationScenario ==
    /\ pc = "done"
    /\ kind \in ShardedKinds
    /\ batchSize = 5
    /\ miniSize = 2
    /\ Len(files) = 1
    /\ Len(records) = 5
    /\ StubOutcomes

C1_DropsOddRecord ==
    DegradationScenario =>
        /\ CallSizes = <<5, 2, 2>>
        /\ CallOutcomes = <<FALSE, TRUE, TRUE>>
        /\ total_imported = 4

(***************************************************************************)
(* C1 (amended): in that scenario the run makes exactly 4 upsert calls:    *)
(* the full batch of 5 fails, then the sub-batches of sizes 2, 2 and 1     *)
(* succeed; no record is dropped and the reported total is 5.              *)
(***************************************************************************)
C1_BatchDegradation ==
    DegradationScenario =>
        /\ CallSizes = <<5, 2, 2, 1>>
        /\ CallOutcomes = <<FALSE, TRUE, TRUE, TRUE>>
        /\ total_imported = 5
        /\ Landed = {<<1, p>> : p \in 1..5}

C1_Witness == DegradationScenario

(***************************************************************************)
(* C2: two-tier retry.  Whatever the store does, every accepted record is  *)
(* sent in exactly one full-size attempt; it is sent in a fallback         *)
(* sub-batch, exactly once, if and only if that attempt failed; a failing  *)
(* sub-batch stops nothing after it; no record is attempted a third time.  *)
(***************************************************************************)
C2_TwoTierRetry ==
    /\ CallsCarryRecords
    /\ \A p \in 1..Len(records) :
        LET full == FullCalls(LoadedFile, p)
            mini == MiniCalls(LoadedFile, p)
        IN  /\ Cardinality(full) <= 1
            /\ Cardinality(mini) <= 1
            /\ mini # {} =>
                \E k \in full : ~calls[k].ok /\ \A m \in mini : k < m
            /\ BatchFinished(p) =>
                /\ Cardinality(full) = 1
                /\ \A k \in full : ~calls[k].ok => Cardinality(mini) = 1

\* a run ended in which a sub-batch failed and a later sub-batch and a later
\* batch were still attempted
C2_Witness ==
    /\ pc = "done"
    /\ \E k1, k2, k3 \in CallIds :
        /\ k1 < k2 /\ k2 < k3
        /\ calls[k1].tier = "mini" /\ ~calls[k1].ok
        /\ calls[k2].tier = "mini" /\ calls[k2].file = calls[k1].file
        /\ calls[k3].tier = "full" /\ calls[k3].file = calls[k1].file

(***************************************************************************)
(* C3: success count.  In every state of a run the running total equals    *)
(* the number of records in the upsert calls that succeeded, and that is   *)
(* the number of distinct records that landed: none is counted twice and   *)
(* none whose attempts all failed is counted.                              *)
(***************************************************************************)
C3_CountAccurate ==
    /\ total_imported = SucceededSize(calls)
    /\ total_imported = Cardinality(Landed)

C3_Witness ==
    /\ pc = "done"
    /\ total_imported > 0
    /\ \E k1, k2, k3 \in CallIds :
        /\ calls[k1].tier = "full" /\ calls[k1].ok
        /\ calls[k2].tier = "mini" /\ calls[k2].ok
        /\ calls[k3].tier = "mini" /\ ~calls[k3].ok

(***************************************************************************)
(* C4: persistence failures never halt a run.  Every run reaches its final *)
(* summary, with every batch of the loaded file attempted and a total      *)
(* that is zero when no upsert succeeded.                                  *)
(***************************************************************************)
SummaryReached ==
    /\ pc = "done"
    /\ f = Len(files) + 1
    /\ \A p \in 1..Len(records) : FullCalls(LoadedFile, p) # {}
    /\ total_imported \in Nat
    /\ (\A k \in CallIds : ~calls[k].ok) => total_imported = 0

C4_RunCompletes == <>SummaryReached

\* the summary of a run in which every upsert failed
C4_Witness ==
    /\ SummaryReached
    /\ Len(calls) >= 3
    /\ \A k \in CallIds : ~calls[k].ok

(***************************************************************************)
(* C5: a row whose identity field is empty or missing is in no upsert call *)
(* and adds nothing to the imported total, for all four importers.         *)
(***************************************************************************)
HasIdentity(row) == Len(Get(row, IdColumn(kind))) > 0

RowsWithIdentity ==
    SumSeq([fl \in 1..Len(files) |->
        Cardinality({n \in 1..Len(files[fl]) : HasIdentity(files[fl][n])})])

C5_NoEmptyIdentity ==
    /\ \A p \in 1..Len(records) :
        /\ HasIdentity(files[LoadedFile][src[p]])
        /\ Len(records[p].id) > 0
    /\ \A k \in CallIds : \A q \in 1..Len(calls[k].recs) : Len(calls[k].recs[q].id) > 0
    /\ CallsCarryRecords
    /\ total_imported <= RowsWithIdentity

\* a run that loaded a record from a file that also held a row without identity
C5_Witness ==
    /\ pc = "done"
    /\ total_imported > 0
    /\ \E n \in 1..Len(files[1]) :
        /\ ~HasIdentity(files[1][n])
        /\ ~DateFilterRejects(Get(files[1][n], "receivedDt"))

(***************************************************************************)
(* C6 (as stated): the date filter fails open.  A Report, Contribution or  *)
(* Expenditure row whose received date is present but whose leading 8      *)
(* characters are no integer, values shorter than 8 characters included,   *)
(* is never rejected by the date filter: once its file is read, such a     *)
(* row with an identity is among the accepted records.                     *)
(***************************************************************************)
FileRead == pc \in {"batch", "mini"}

Accepted(n) == \E p \in 1..Len(src) : src[p] = n

Unparsable(raw) == Len(raw) > 0 /\ PyInt(Prefix(raw, 8)) = {}

C6_FilterFailsOpen ==
    (kind \in DatedKinds /\ FileRead) =>
        \A n \in 1..Len(files[f]) :
            (Unparsable(Get(files[f][n], "receivedDt")) /\ HasIdentity(files[f][n]))
                => Accepted(n)

(***************************************************************************)
(* C7 (as stated): every Report, Contribution or Expenditure record handed *)
(* to the store whose row has a received date carries a received date on   *)
(* or after 2020-01-01; no record is handed over with a stored             *)
(* received_date before the cutoff.                                        *)
(***************************************************************************)
IsoToInt(iso) == DigitsToInt(SelectSeq(iso, IsDigit))

C7_StoredDatesFromCutoff ==
    kind \in DatedKinds =>
        \A k \in CallIds : calls[k].file = LoadedFile =>
            \A q \in 1..Len(calls[k].recs) :
                LET row == files[LoadedFile][src[calls[k].at + q]]
                    rec == calls[k].recs[q]
                IN  Len(Get(row, "receivedDt")) > 0 =>
                        /\ rec.received_date # None
                        /\ IsoToInt(rec.received_date) >= MIN_DATE

(***************************************************************************)
(* C8 (as stated): for every entity kind the records handed to the store   *)
(* have pairwise distinct identities: two different records, in one upsert *)
(* call or in two, never carry the same identity.                          *)
(***************************************************************************)
\* the records the calls carried, as <<file, position, identity>>
SentRecords ==
    UNION {{<<calls[k].file, calls[k].at + q, calls[k].recs[q].id>> :
                q \in 1..Len(calls[k].recs)} : k \in CallIds}

DistinctIdentities ==
    \A x, y \in SentRecords : x[3] = y[3] => (x[1] = y[1] /\ x[2] = y[2])

C8_AllKindsDistinct == DistinctIdentities

(***************************************************************************)
(* C8 (amended): for the Filer kind the records handed to the store have   *)
(* pairwise distinct identities (of the rows sharing an identity at most   *)
(* the first is kept); an identity is in two upsert calls only as the same *)
(* record, in a failed batch and in its fallback retry.  The Report,       *)
(* Contribution and Expenditure importers do not deduplicate.              *)
(***************************************************************************)
C8_FilersDistinct ==
    kind = "filers" =>
        /\ DistinctIdentities
        /\ \A p1, p2 \in 1..Len(records) : records[p1].id = records[p2].id => p1 = p2

\* a filer run that sent a record of a file holding a second row of that identity
C8_Witness ==
    /\ kind = "filers"
    /\ pc = "done"
    /\ total_imported > 0
    /\ \E n1, n2 \in 1..Len(files[1]) :
        /\ n1 < n2
        /\ Get(files[1][n1], "filerIdent") = Get(files[1][n2], "filerIdent")
        /\ Len(FilerName(files[1][n2])) > 0
        /\ Accepted(n1)

(***************************************************************************)
(* C9: filer first-wins deduplication.  Of the rows of the filer source    *)
(* that share a filer identifier only the first can be emitted, with the   *)
(* values derived from that row; a later row is never emitted, in any row  *)
(* order, and also when the first row was itself rejected.                 *)
(***************************************************************************)
C9_FilerFirstWins ==
    kind = "filers" =>
        /\ \A p \in 1..Len(records) :
            LET rows == files[LoadedFile]
            IN  /\ records[p] = parse_filer_row(rows[src[p]])
                /\ \A n \in 1..(src[p] - 1) :
                    Get(rows[n], "filerIdent") # Get(rows[src[p]], "filerIdent")
        /\ CallsCarryRecords

\* the first row of an identifier was rejected for its empty name, the second
\* row of that identifier has a name, and the run ended with nothing emitted
C9_Witness ==
    /\ kind = "filers"
    /\ pc = "done"
    /\ Len(files[1]) = 2
    /\ Len(Get(files[1][1], "filerIdent")) > 0
    /\ Get(files[1][1], "filerIdent") = Get(files[1][2], "filerIdent")
    /\ Len(FilerName(files[1][1])) = 0
    /\ Len(FilerName(files[1][2])) > 0
    /\ calls = <<>>

(***************************************************************************)
(* C10 (as stated): a Report, Contribution or Expenditure row whose filer  *)
(* identifier is empty or missing is rejected by the normalizer and never  *)
(* handed to the store.                                                    *)
(***************************************************************************)
C10_FilerIdRequired ==
    kind \in DatedKinds =>
        \A k \in CallIds : \A q \in 1..Len(calls[k].recs) :
            Len(calls[k].recs[q].filer_id) > 0

(***************************************************************************)
(* C11.  Name assembly, single-part case: for filer, contributor and payee *)
(* alike, when the organization field is empty and exactly one of last     *)
(* name and first name is present, the assembled name is that one part     *)
(* alone, with no separator and no suffix, whatever the suffix field       *)
(* holds; a suffix appears only when both last and first are present.      *)
(***************************************************************************)
NameBuilders == {"parse_filer_row", "build_contributor_name", "build_payee_name"}

C11_SinglePartAlone ==
    (op \in NameBuilders /\ Len(given.org) = 0) =>
        /\ (Len(given.last) > 0 /\ Len(given.first) = 0) => result[1] = given.last
        /\ (Len(given.last) = 0 /\ Len(given.first) > 0) => result[1] = given.first
        /\ (Len(given.last) > 0 /\ Len(given.first) > 0) =>
                result[1] = given.last \o <<",", " ">> \o given.first
                            \o (IF Len(given.suffix) > 0
                                THEN <<" ">> \o given.suffix ELSE <<>>)

(***************************************************************************)
(* C12.  City-name normalization gives every spelling of one city the same *)
(* key: whatever the letter case, the surrounding or repeated whitespace,  *)
(* the first word written FT, FT. or FORT (ST, ST. or SAINT), and with or  *)
(* without one trailing ", TX", " TX", " TEXAS" or " TX USA", the result   *)
(* is the city's name in capitals with the first word spelled out.         *)
(* "Ft. Worth, TX" gives "FORT WORTH", "ST HEDWIG TEXAS" gives             *)
(* "SAINT HEDWIG", "Dallas TX USA" gives "DALLAS", and the empty string    *)
(* gives the empty string.                                                 *)
(***************************************************************************)
FtWorthTX == <<"F", "t", ".", " ", "W", "o", "r", "t", "h", ",", " ", "T", "X">>

StHedwigTexas ==
    <<"S", "T", " ", "H", "E", "D", "W", "I", "G", " ", "T", "E", "X", "A", "S">>

DallasTxUsa == <<"D", "a", "l", "l", "a", "s", " ", "T", "X", " ", "U", "S", "A">>

C12_OneKeyPerCity ==
    (op = "normalize_city" /\ Len(given.trail) <= 1) =>
        /\ result[1] = Key(given)
        /\ Render(given) = FtWorthTX => result[1] = FORT \o <<" ">> \o Upper(<<"W", "o", "r", "t", "h">>)
        /\ Render(given) = StHedwigTexas =>
                result[1] = <<"S", "A", "I", "N", "T", " ", "H", "E", "D", "W", "I", "G">>
        /\ Render(given) = DallasTxUsa => result[1] = <<"D", "A", "L", "L", "A", "S">>
        /\ Render(given) = <<>> => result[1] = <<>>

\* "Ft. Worth, TX" has been normalized to "FORT WORTH"
C12_Witness ==
    /\ op = "normalize_city"
    /\ Render(given) = FtWorthTX
    /\ result = <<<<"F", "O", "R", "T", " ", "W", "O", "R", "T", "H">>>>

(***************************************************************************)
(* C13.  normalize_city is idempotent: normalizing a value it returned     *)
(* gives that value back, so a key of the cities table is a fixed point;   *)
(* this includes inputs that carry more than one trailing state token.     *)
(***************************************************************************)
C13_Idempotent == op = "lookup" => result[2] = result[1]

====
